---- MODULE Spec2Model ----
(***************************************************************************)
(* State-machine model of the erc20 pallet (pallets/erc20/src/lib.rs).     *)
(*                                                                         *)
(* The storage items Tokens, BalanceOf and Allowance are the state. Each   *)
(* dispatchable (init, transfer, transfer_from, approve) is one action;    *)
(* its body is an operator over a storage record, translated statement by  *)
(* statement. The pallet is written with decl_module! and carries no       *)
(* #[transactional] attribute: a storage write or a deposited event made   *)
(* before a dispatchable returns Err stays made.                           *)
(***************************************************************************)
EXTENDS Integers, Sequences, FiniteSets, TLC

\* ---------------------------------------------------------------- bounds

\* Number of extrinsics dispatched in one behaviour.
MaxCalls == 3

\* Largest value of T::TokenBalance (the model's stand-in for 2^w - 1).
MaxValue == 3

\* Largest amount passed as an argument of a call.
MaxAmount == 2

\* ------------------------------------------------------------- constants

\* ensure!(name.len() <= 64, ...)
NameMax == 64

\* ensure!(ticker.len() <= 32, ...)
TickerMax == 32

\* ---------------------------------------------------------------- inputs

Accounts == {"alice", "carol", "dave"}

Amounts == 0..MaxAmount

\* A Vec<u8> of n bytes.
Bytes(n) == [i \in 1..n |-> 84]

Names == {Bytes(NameMax), Bytes(NameMax + 1)}

Tickers == {Bytes(TickerMax), Bytes(TickerMax + 1)}

\* ------------------------------------------------------- dispatch results

Ok == "Ok"

NameTooLong == "token name cannot exceed 64 bytes"

TickerTooLong == "token ticker cannot exceed 32 bytes"

InsufficientAllowance == "Not enough allowance."

InsufficientBalance == "Not enough balance."

StorageOverflow == "StorageOverflow"

\* `allowance + value` in a build with overflow checks on aborts the call.
AddPanic == "panic: attempt to add with overflow"

\* ----------------------------------------------------------------- state

VARIABLES
    Tokens,      \* the Erc20Token record
    BalanceOf,   \* account -> balance
    Allowance,   \* (owner, spender) -> allowance
    events,      \* events deposited by the latest extrinsic, in order
    result,      \* DispatchResult of the latest extrinsic
    last,        \* the latest extrinsic: call name, origin and arguments
    prev,        \* storage as it was when the latest extrinsic began
    issued,      \* an init call has returned Ok
    calls,       \* number of extrinsics dispatched
    approved,    \* (owner, spender) -> total value the owner passed to approve
    moved,       \* (from, to) -> total value moved by transfer_from calls that returned Ok
    approvers,   \* accounts that have called approve
    overflowed   \* an approve call has had allowance + value exceed the maximum

vars == <<Tokens, BalanceOf, Allowance, events, result, last, prev, issued, calls,
          approved, moved, approvers, overflowed>>

\* Erc20Token { name, ticker, total_supply }
Erc20Token(name, ticker, total_supply) ==
    [name |-> name, ticker |-> ticker, total_supply |-> total_supply]

\* #[derive(Default)]: empty name, empty ticker, zero supply.
DefaultToken == Erc20Token(<<>>, <<>>, 0)

\* The storage an extrinsic starts from, with no event deposited yet.
Storage ==
    [Tokens |-> Tokens, BalanceOf |-> BalanceOf, Allowance |-> Allowance,
     events |-> <<>>, result |-> Ok]

\* ------------------------------------------------------------ arithmetic

None == -1

checked_sub(a, b) == IF a >= b THEN a - b ELSE None

checked_add(a, b) == IF a + b <= MaxValue THEN a + b ELSE None

\* `a + b` of the primitive integer in a build without overflow checks.
wrapping_add(a, b) == (a + b) % (MaxValue + 1)

\* ---------------------------------------------------------------- events

TransferEvent(from, to, value) ==
    [kind |-> "Transfer", a |-> from, b |-> to, value |-> value]

ApprovalEvent(owner, spender, value) ==
    [kind |-> "Approval", a |-> owner, b |-> spender, value |-> value]

deposit_event(st, ev) == [st EXCEPT !.events = Append(@, ev)]

Err(st, e) == [st EXCEPT !.result = e]

\* ------------------------------------------------------- storage getters

token_details(st) == st.Tokens

balance_of(st, who) == st.BalanceOf[who]

allowance(st, key) == st.Allowance[key]

\* ----------------------------------------------------------- the pallet

\* init with the length limits read as strict: a 64-byte name and a 32-byte
\* ticker are refused.
init_strict_limits(st, sender, name, ticker, total_supply) ==
    IF ~(Len(name) < NameMax) THEN Err(st, NameTooLong)
    ELSE IF ~(Len(ticker) < TickerMax) THEN Err(st, TickerTooLong)
    ELSE LET token == Erc20Token(name, ticker, total_supply)
         IN  [st EXCEPT !.Tokens = token,
                        !.BalanceOf = [@ EXCEPT ![sender] = total_supply]]

\* fn init(origin, name, ticker, total_supply)
init(st, sender, name, ticker, total_supply) ==
    IF ~(Len(name) <= NameMax) THEN Err(st, NameTooLong)
    ELSE IF ~(Len(ticker) <= TickerMax) THEN Err(st, TickerTooLong)
    ELSE LET token == Erc20Token(name, ticker, total_supply)
         IN  [st EXCEPT !.Tokens = token,
                        !.BalanceOf = [@ EXCEPT ![sender] = total_supply]]

\* _transfer without its ensure!(sender_balance >= value): the shortfall is
\* caught by checked_sub and reported as StorageOverflow.
_transfer_no_ensure(st, from, to, value) ==
    LET sender_balance == balance_of(st, from)
        updated_from_balance == checked_sub(sender_balance, value)
    IN
    IF updated_from_balance = None THEN Err(st, StorageOverflow)
    ELSE
    LET receiver_balance == balance_of(st, to)
        updated_to_balance == checked_add(receiver_balance, value)
    IN
    IF updated_to_balance = None THEN Err(st, StorageOverflow)
    ELSE
    LET st1 == [st EXCEPT !.BalanceOf = [@ EXCEPT ![from] = updated_from_balance]]
        st2 == [st1 EXCEPT !.BalanceOf = [@ EXCEPT ![to] = updated_to_balance]]
    IN  deposit_event(st2, TransferEvent(from, to, value))

\* _transfer without the insert that reduces the sender's balance.
_transfer_no_debit(st, from, to, value) ==
    LET sender_balance == balance_of(st, from) IN
    IF ~(sender_balance >= value) THEN Err(st, InsufficientBalance)
    ELSE
    LET receiver_balance == balance_of(st, to)
        updated_to_balance == checked_add(receiver_balance, value)
    IN
    IF updated_to_balance = None THEN Err(st, StorageOverflow)
    ELSE
    LET st2 == [st EXCEPT !.BalanceOf = [@ EXCEPT ![to] = updated_to_balance]]
    IN  deposit_event(st2, TransferEvent(from, to, value))

\* _transfer that credits the receiver with the unchecked `+` instead of
\* checked_add.
_transfer_unchecked_credit(st, from, to, value) ==
    LET sender_balance == balance_of(st, from) IN
    IF ~(sender_balance >= value) THEN Err(st, InsufficientBalance)
    ELSE
    LET updated_from_balance == checked_sub(sender_balance, value) IN
    IF updated_from_balance = None THEN Err(st, StorageOverflow)
    ELSE
    LET receiver_balance == balance_of(st, to)
        updated_to_balance == wrapping_add(receiver_balance, value)
        st1 == [st EXCEPT !.BalanceOf = [@ EXCEPT ![from] = updated_from_balance]]
        st2 == [st1 EXCEPT !.BalanceOf = [@ EXCEPT ![to] = updated_to_balance]]
    IN  deposit_event(st2, TransferEvent(from, to, value))

\* fn _transfer(from, to, value)
_transfer(st, from, to, value) ==
    LET sender_balance == balance_of(st, from) IN
    IF ~(sender_balance >= value) THEN Err(st, InsufficientBalance)
    ELSE
    LET updated_from_balance == checked_sub(sender_balance, value) IN
    IF updated_from_balance = None THEN Err(st, StorageOverflow)
    ELSE
    LET receiver_balance == balance_of(st, to)
        updated_to_balance == checked_add(receiver_balance, value)
    IN
    IF updated_to_balance = None THEN Err(st, StorageOverflow)
    ELSE
    LET st1 == [st EXCEPT !.BalanceOf = [@ EXCEPT ![from] = updated_from_balance]]
        st2 == [st1 EXCEPT !.BalanceOf = [@ EXCEPT ![to] = updated_to_balance]]
    IN  deposit_event(st2, TransferEvent(from, to, value))

\* fn transfer(_origin, to, value)
transfer(st, sender, to, value) == _transfer(st, sender, to, value)

\* transfer_from that stores the reduced allowance under the key (to, from).
transfer_from_swapped_key(st, origin, from, to, value) ==
    LET allowance_ == allowance(st, <<from, to>>) IN
    IF ~(allowance_ >= value) THEN Err(st, InsufficientAllowance)
    ELSE
    LET updated_allowance == checked_sub(allowance_, value) IN
    IF updated_allowance = None THEN Err(st, StorageOverflow)
    ELSE
    LET st1 == [st EXCEPT !.Allowance = [@ EXCEPT ![<<to, from>>] = updated_allowance]]
        st2 == deposit_event(st1, ApprovalEvent(from, to, value))
    IN  _transfer(st2, from, to, value)

\* transfer_from without the insert of the reduced allowance.
transfer_from_no_decrement(st, origin, from, to, value) ==
    LET allowance_ == allowance(st, <<from, to>>) IN
    IF ~(allowance_ >= value) THEN Err(st, InsufficientAllowance)
    ELSE
    LET updated_allowance == checked_sub(allowance_, value) IN
    IF updated_allowance = None THEN Err(st, StorageOverflow)
    ELSE
    LET st2 == deposit_event(st, ApprovalEvent(from, to, value))
    IN  _transfer(st2, from, to, value)

\* transfer_from without its ensure!(allowance >= value), the allowance
\* reduced with a saturating subtraction.
transfer_from_saturating(st, origin, from, to, value) ==
    LET allowance_ == allowance(st, <<from, to>>)
        updated_allowance == IF allowance_ >= value THEN allowance_ - value ELSE 0
        st1 == [st EXCEPT !.Allowance = [@ EXCEPT ![<<from, to>>] = updated_allowance]]
        st2 == deposit_event(st1, ApprovalEvent(from, to, value))
    IN  _transfer(st2, from, to, value)

\* fn transfer_from(_origin, from, to, value): the origin is never read.
transfer_from(st, origin, from, to, value) ==
    LET allowance_ == allowance(st, <<from, to>>) IN
    IF ~(allowance_ >= value) THEN Err(st, InsufficientAllowance)
    ELSE
    LET updated_allowance == checked_sub(allowance_, value) IN
    IF updated_allowance = None THEN Err(st, StorageOverflow)
    ELSE
    LET st1 == [st EXCEPT !.Allowance = [@ EXCEPT ![<<from, to>>] = updated_allowance]]
        st2 == deposit_event(st1, ApprovalEvent(from, to, value))
    IN  _transfer(st2, from, to, value)

\* approve that stores `value` as the allowance instead of adding it.
approve_overwrite(st, sender, spender, value, overflow_checks) ==
    LET st1 == [st EXCEPT !.Allowance = [@ EXCEPT ![<<sender, spender>>] = value]]
    IN  deposit_event(st1, ApprovalEvent(sender, spender, value))

\* fn approve(_origin, spender, value). overflow_checks is the build's
\* setting for the unchecked `allowance + value`.
approve(st, sender, spender, value, overflow_checks) ==
    LET allowance_ == allowance(st, <<sender, spender>>) IN
    IF overflow_checks /\ allowance_ + value > MaxValue THEN Err(st, AddPanic)
    ELSE
    LET updated_allowance == wrapping_add(allowance_, value)
        st1 == [st EXCEPT !.Allowance = [@ EXCEPT ![<<sender, spender>>] = updated_allowance]]
    IN  deposit_event(st1, ApprovalEvent(sender, spender, value))

\* --------------------------------------------------------- the extrinsics

Call(op, origin, from, to, value, name, ticker) ==
    [op |-> op, origin |-> origin, from |-> from, to |-> to, value |-> value,
     name |-> name, ticker |-> ticker]

NoCall == Call("none", "-", "-", "-", 0, <<>>, <<>>)

\* The history variables before any extrinsic, and between two extrinsics.
NoPrev ==
    [Tokens |-> DefaultToken, BalanceOf |-> [a \in Accounts |-> 0],
     Allowance |-> [k \in Accounts \X Accounts |-> 0], issued |-> FALSE]

\* The host dispatches one extrinsic at a time, to completion.
Ready == last = NoCall /\ calls < MaxCalls

\* What the dispatchable leaves in `st` becomes the storage, whatever it
\* returned.
Commit(st, call) ==
    /\ calls' = calls + 1
    /\ prev' = [Tokens |-> Tokens, BalanceOf |-> BalanceOf, Allowance |-> Allowance,
                issued |-> issued]
    /\ last' = call
    /\ Tokens' = st.Tokens
    /\ BalanceOf' = st.BalanceOf
    /\ Allowance' = st.Allowance
    /\ events' = st.events
    /\ result' = st.result
    /\ issued' = (issued \/ (call.op = "init" /\ st.result = Ok))
    /\ approved' = IF call.op = "approve"
                   THEN [approved EXCEPT ![<<call.from, call.to>>] = @ + call.value]
                   ELSE approved
    /\ moved' = IF call.op = "transfer_from" /\ st.result = Ok
                THEN [moved EXCEPT ![<<call.from, call.to>>] = @ + call.value]
                ELSE moved
    /\ approvers' = IF call.op = "approve" THEN approvers \cup {call.origin} ELSE approvers
    /\ overflowed' = (overflowed \/ (/\ call.op = "approve"
                                     /\ Allowance[<<call.from, call.to>>] + call.value > MaxValue))

Init ==
    /\ Tokens = DefaultToken
    /\ BalanceOf = [a \in Accounts |-> 0]
    /\ Allowance = [k \in Accounts \X Accounts |-> 0]
    /\ events = <<>>
    /\ result = Ok
    /\ last = NoCall
    /\ prev = NoPrev
    /\ issued = FALSE
    /\ calls = 0
    /\ approved = [k \in Accounts \X Accounts |-> 0]
    /\ moved = [k \in Accounts \X Accounts |-> 0]
    /\ approvers = {}
    /\ overflowed = FALSE

Issue ==
    /\ Ready
    /\ \E sender \in Accounts, name \in Names, ticker \in Tickers, total_supply \in Amounts :
           Commit(init(Storage, sender, name, ticker, total_supply),
                  Call("init", sender, "-", "-", total_supply, name, ticker))

Transfer ==
    /\ Ready
    /\ \E sender \in Accounts, to \in Accounts, value \in Amounts :
           Commit(transfer(Storage, sender, to, value),
                  Call("transfer", sender, sender, to, value, <<>>, <<>>))

TransferFrom ==
    /\ Ready
    /\ \E origin \in Accounts, from \in Accounts, to \in Accounts, value \in Amounts :
           Commit(transfer_from(Storage, origin, from, to, value),
                  Call("transfer_from", origin, from, to, value, <<>>, <<>>))

Approve ==
    /\ Ready
    /\ \E sender \in Accounts, spender \in Accounts, value \in Amounts,
          overflow_checks \in BOOLEAN :
           Commit(approve(Storage, sender, spender, value, overflow_checks),
                  Call("approve", sender, sender, spender, value, <<>>, <<>>))

\* The host takes the result and the events of the extrinsic and moves on to
\* the next one. The storage is not touched.
NextExtrinsic ==
    /\ last # NoCall
    /\ last' = NoCall
    /\ prev' = NoPrev
    /\ events' = <<>>
    /\ result' = Ok
    /\ UNCHANGED <<Tokens, BalanceOf, Allowance, issued, calls,
                   approved, moved, approvers, overflowed>>

Next == Issue \/ Transfer \/ TransferFrom \/ Approve \/ NextExtrinsic

Spec == Init /\ [][Next]_vars

\* ===================================================================
\* Properties
\* ===================================================================

RECURSIVE SumOver(_, _)
SumOver(f, S) ==
    IF S = {} THEN 0
    ELSE LET x == CHOOSE y \in S : TRUE IN f[x] + SumOver(f, S \ {x})

\* Sum of balance_of(a) over all accounts.
TotalBalance == SumOver(BalanceOf, Accounts)

\* The allowance entry transfer_from reads and writes.
Consulted == <<last.from, last.to>>

\* The allowance entry of the owner for the caller of transfer_from.
OwnerForCaller == <<last.from, last.origin>>

\* The latest extrinsic left the three storage items as it found them.
StorageUntouched ==
    /\ Tokens = prev.Tokens
    /\ BalanceOf = prev.BalanceOf
    /\ Allowance = prev.Allowance

\* C1 (conservation): in every state after the first successful issue, the
\* sum of all balances equals the stored total_supply.
C1_Conservation == issued => TotalBalance = Tokens.total_supply

\* C2 (atomicity of transfer_from): a transfer_from that passed its allowance
\* check and failed in the balance move (sender balance too low, or receiver
\* overflow) leaves the allowance entry it consulted and every balance as
\* they were.
C2_TransferFromAtomic ==
    (last.op = "transfer_from" /\ result \in {InsufficientBalance, StorageOverflow})
        => /\ Allowance[Consulted] = prev.Allowance[Consulted]
           /\ BalanceOf = prev.BalanceOf

\* C3 (allowance gate): transfer_from called by spender fails with
\* InsufficientAllowance and changes no balance and no allowance whenever
\* allowance(from, spender) < value, for every `to`.
C3_GatedByCallerAllowance ==
    (last.op = "transfer_from" /\ prev.Allowance[OwnerForCaller] < last.value)
        => /\ result = InsufficientAllowance
           /\ BalanceOf = prev.BalanceOf
           /\ Allowance = prev.Allowance

\* C4 (delegated transfer): transfer_from by spender with
\* allowance(from, spender) >= value, balance_of(from) >= value and from # to
\* succeeds, takes value off allowance(from, spender) and off balance_of(from),
\* adds it to balance_of(to), and changes nothing else.
C4_TransferFromEffect ==
    (/\ last.op = "transfer_from"
     /\ prev.Allowance[OwnerForCaller] >= last.value
     /\ prev.BalanceOf[last.from] >= last.value
     /\ last.from # last.to)
        => /\ result = Ok
           /\ Allowance = [prev.Allowance EXCEPT ![OwnerForCaller] = @ - last.value]
           /\ BalanceOf = [prev.BalanceOf EXCEPT ![last.from] = @ - last.value,
                                                 ![last.to] = @ + last.value]
           /\ Tokens = prev.Tokens

\* C5 (insufficient balance): transfer of more than the caller holds fails
\* with InsufficientBalance and leaves balances, allowances and the Token
\* record as they were.
C5_TransferInsufficientBalance ==
    (last.op = "transfer" /\ prev.BalanceOf[last.origin] < last.value)
        => /\ result = InsufficientBalance
           /\ StorageUntouched

C5_Witness ==
    /\ last.op = "transfer"
    /\ prev.BalanceOf[last.origin] > 0
    /\ prev.BalanceOf[last.origin] < last.value
    /\ result = InsufficientBalance

\* C6 (transfer effect): a successful transfer to another account takes
\* value off the caller's balance, adds it to the receiver's, and changes no
\* other balance.
C6_TransferEffect ==
    (last.op = "transfer" /\ result = Ok /\ last.origin # last.to)
        => BalanceOf = [prev.BalanceOf EXCEPT ![last.origin] = @ - last.value,
                                              ![last.to] = @ + last.value]

C6_Witness ==
    /\ last.op = "transfer"
    /\ result = Ok
    /\ last.origin # last.to
    /\ last.value > 0
    /\ BalanceOf[last.origin] > 0

\* C7 (additive approve): when previous allowance plus value fits the
\* integer type, approve succeeds and leaves the entry at previous plus value.
C7_AdditiveApprove ==
    (last.op = "approve" /\ prev.Allowance[Consulted] + last.value <= MaxValue)
        => /\ result = Ok
           /\ Allowance[Consulted] = prev.Allowance[Consulted] + last.value

C7_Witness ==
    /\ last.op = "approve"
    /\ prev.Allowance[Consulted] > 0
    /\ last.value > 0
    /\ prev.Allowance[Consulted] + last.value <= MaxValue
    /\ Allowance[Consulted] = prev.Allowance[Consulted] + last.value

\* C8 (approve overflow): when previous allowance plus value exceeds the
\* maximum of the integer type, approve fails with Overflow, the entry keeps
\* its value and no event is deposited.
C8_ApproveOverflowRejected ==
    (last.op = "approve" /\ prev.Allowance[Consulted] + last.value > MaxValue)
        => /\ result = StorageOverflow
           /\ Allowance = prev.Allowance
           /\ events = <<>>

\* C9 (single issuance): once an issue has succeeded, no later step changes
\* the Token record.
C9_SingleIssuance == [][issued => Tokens' = Tokens]_vars

\* C10 (issue validation): a name over 64 bytes fails with NameTooLong, also
\* when the ticker is too long as well; a ticker over 32 bytes under a valid
\* name fails with TickerTooLong; both leave the storage as it was; a name of
\* at most 64 bytes with a ticker of at most 32 bytes is accepted.
C10_IssueValidation ==
    last.op = "init" =>
        /\ Len(last.name) > 64
              => (result = NameTooLong /\ StorageUntouched)
        /\ (Len(last.name) <= 64 /\ Len(last.ticker) > 32)
              => (result = TickerTooLong /\ StorageUntouched)
        /\ (Len(last.name) <= 64 /\ Len(last.ticker) <= 32)
              => result = Ok

C10_Witness ==
    /\ last.op = "init"
    /\ prev.issued
    /\ Len(last.name) = 65
    /\ Len(last.ticker) = 33
    /\ result = NameTooLong

\* The allowance map agrees with its value before the latest extrinsic on
\* every entry other than k.
AllowanceSameExcept(k) ==
    \A j \in Accounts \X Accounts : j # k => Allowance[j] = prev.Allowance[j]

\* C11 (issue effect): a successful issue stores Token{name, ticker,
\* total_supply}, sets the caller's balance to total_supply, leaves every
\* other account with a zero balance, and changes no allowance.
C11_IssueEffect ==
    (last.op = "init" /\ result = Ok)
        => /\ Tokens = [name |-> last.name, ticker |-> last.ticker,
                        total_supply |-> last.value]
           /\ BalanceOf[last.origin] = last.value
           /\ \A a \in Accounts \ {last.origin} : BalanceOf[a] = 0
           /\ Allowance = prev.Allowance

\* C12 (receiver overflow): a balance move (transfer, or transfer_from past
\* its allowance check) with enough sender balance whose receiver balance
\* plus value exceeds the maximum fails with Overflow and writes no balance;
\* every balance stays within the integer type.
C12_ReceiverOverflow ==
    /\ (/\ \/ last.op = "transfer"
           \/ last.op = "transfer_from" /\ prev.Allowance[Consulted] >= last.value
        /\ prev.BalanceOf[last.from] >= last.value
        /\ prev.BalanceOf[last.to] + last.value > MaxValue)
           => (result = StorageOverflow /\ BalanceOf = prev.BalanceOf)
    /\ \A a \in Accounts : BalanceOf[a] \in 0..MaxValue

C12_Witness ==
    /\ last.op = "transfer"
    /\ last.from # last.to
    /\ prev.BalanceOf[last.from] >= last.value
    /\ prev.BalanceOf[last.to] + last.value > MaxValue
    /\ result = StorageOverflow

\* C13 (events on success): a successful transfer deposits exactly
\* Transfer(caller, to, value); a successful approve exactly
\* Approval(owner, spender, value); a successful transfer_from exactly
\* Approval(from, caller, value) then Transfer(from, to, value); a successful
\* issue deposits nothing.
C13_EventsOnSuccess ==
    result = Ok =>
        /\ last.op = "transfer" =>
              events = <<[kind |-> "Transfer", a |-> last.origin, b |-> last.to,
                          value |-> last.value]>>
        /\ last.op = "approve" =>
              events = <<[kind |-> "Approval", a |-> last.origin, b |-> last.to,
                          value |-> last.value]>>
        /\ last.op = "transfer_from" =>
              events = <<[kind |-> "Approval", a |-> last.from, b |-> last.origin,
                          value |-> last.value],
                         [kind |-> "Transfer", a |-> last.from, b |-> last.to,
                          value |-> last.value]>>
        /\ last.op = "init" => events = <<>>

\* C14 (only issue creates supply): no transfer, approve or transfer_from,
\* successful or failed, changes the sum of all balances.
C14_OnlyIssueCreatesSupply ==
    last.op \in {"transfer", "approve", "transfer_from"}
        => TotalBalance = SumOver(prev.BalanceOf, Accounts)

\* C15 (events only on success): an extrinsic that returns a failure
\* deposits no event.
C15_NoEventOnFailure == result # Ok => events = <<>>

\* C16 (frame): transfer changes no allowance and not the Token record;
\* approve changes no balance, not the Token record, and no allowance entry
\* other than (caller, spender); transfer_from does not change the Token
\* record nor any allowance entry other than the one it consumes.
C16_Frame ==
    /\ last.op = "transfer"
          => (Allowance = prev.Allowance /\ Tokens = prev.Tokens)
    /\ last.op = "approve"
          => /\ BalanceOf = prev.BalanceOf
             /\ Tokens = prev.Tokens
             /\ AllowanceSameExcept(<<last.origin, last.to>>)
    /\ last.op = "transfer_from"
          => (Tokens = prev.Tokens /\ AllowanceSameExcept(Consulted))

C16_Witness ==
    /\ last.op = "transfer_from"
    /\ result = Ok
    /\ last.value > 0
    /\ last.from # last.to
    /\ issued
    /\ Allowance[Consulted] < prev.Allowance[Consulted]

\* C17 (delegated spending is bounded): as long as no approve has
\* overflowed, for every allowance key the total moved by successful
\* transfer_from calls consuming that entry is at most the total approved for
\* it, and the entry is at most total approved minus total moved.
C17_SpendingBounded ==
    ~overflowed =>
        \A k \in Accounts \X Accounts :
            /\ moved[k] <= approved[k]
            /\ Allowance[k] <= approved[k] - moved[k]

C17_Witness ==
    /\ ~overflowed
    /\ last.op = "transfer_from"
    /\ result = Ok
    /\ last.value > 0
    /\ moved[Consulted] = approved[Consulted]

\* C18 (no theft without consent): a call made by another account never
\* lowers the balance of an account that has never called approve; and an
\* allowance entry (o, x) rises only in an approve call made by o.
C18_NoTheftWithoutConsent ==
    last.op # "none" =>
        /\ \A o \in Accounts :
              (o \notin approvers /\ last.origin # o)
                  => BalanceOf[o] >= prev.BalanceOf[o]
        /\ \A k \in Accounts \X Accounts :
              Allowance[k] > prev.Allowance[k]
                  => (last.op = "approve" /\ last.origin = k[1])

C18_Witness ==
    /\ last.op = "transfer_from"
    /\ last.from \notin approvers
    /\ last.origin # last.from
    /\ last.to # last.from
    /\ last.value > 0
    /\ prev.BalanceOf[last.from] >= last.value
    /\ result = InsufficientAllowance
    /\ BalanceOf = prev.BalanceOf

====
